---- MODULE Spec2Model ----
(***************************************************************************)
(* Model of eth_graph_parser (src/src/main.rs).                            *)
(*                                                                         *)
(* Four specifications share the module:                                   *)
(*   Spec      the relevance-priority crawl of parse_blockchain, one step  *)
(*             per loop-top decision, per fetch attempt and per returned   *)
(*             transaction;                                                *)
(*   SpecFair  the same crawl when every fetch eventually succeeds;        *)
(*   SpecPure  the analytics functions (filters, flow, volume,             *)
(*             persistence) applied to a graph and a price series drawn    *)
(*             from bounded sets, as test_main applies them to a           *)
(*             hand-built graph;                                           *)
(*   SpecPrice get_price_at_timestamp applied to a timestamp and a price   *)
(*             series drawn from bounded sets.                             *)
(*                                                                         *)
(* Conventions.  A petgraph Graph is a record [nodes, edges]: nodes is the *)
(* sequence of node weights, a NodeIndex n (0-based, as in petgraph) names *)
(* nodes[n + 1]; edges is the sequence of [source, target, weight] in edge *)
(* index order.  A Rust String holding a number is a sequence of decimal   *)
(* digits, parsed by ParseNumber.  A value string counts units of 10^17    *)
(* wei, so that one ETH is WeiPerEth = 10 units and amounts stay within    *)
(* TLC's integers; an f64 amount in USD is the integer numerator of        *)
(* amount / WeiPerEth.  Every f64 multiplication, addition and subtraction *)
(* rounds its result to the nearest value of MantissaBits significant      *)
(* bits (53 in the code), ties to even.                                    *)
(***************************************************************************)
EXTENDS Integers, Sequences, FiniteSets, TLC

(***************************************************************************)
(* Bounds of the model.                                                    *)
(***************************************************************************)
MaxBudget == 3          \* MAX_TRANSACTIONS_TO_PARSE ranges over 0..MaxBudget
MaxResponseLen == 2     \* longest result list of one Transaction Source response
MaxGraphSize == 5       \* most nodes plus edges of an input graph of SpecPure
MaxSeriesLen == 2       \* most records of a price series of SpecPrice

(***************************************************************************)
(* Addresses and the ledger the Transaction Source answers from.           *)
(***************************************************************************)
TRAVERSAL_STARTING_ADDRESS == "0x4976A4"

\* str::to_lowercase on the address strings of the model.
to_lowercase(s) ==
    CASE s = "0x4976A4" -> "0x4976a4"
      [] OTHER -> s

\* One RawTransaction, reduced to the fields the program reads.
RawTransaction(hash, from, to, isError, contractAddress) ==
    [hash |-> hash, from |-> from, to |-> to,
     value |-> <<1, 0>>, timeStamp |-> <<3, 6, 0, 0>>,
     isError |-> isError, contractAddress |-> contractAddress]

\* The transactions a response may carry: plain transfers, the same hash
\* under two different sets of endpoints, a mixed-case spelling of the seed,
\* a contract creation, a failed transaction, a GENESIS transfer and a
\* transfer of an address to itself.
Ledger ==
    { RawTransaction("h1", "0x4976a4", "0xb", "0", ""),
      RawTransaction("h2", "0xb", "0x4976a4", "0", ""),
      RawTransaction("h1", "0xb", "0xc", "0", ""),
      RawTransaction("h3", "0x4976A4", "0xc", "0", ""),
      RawTransaction("h4", "0xb", "", "0", "0xd"),
      RawTransaction("h5", "0xb", "0xc", "1", ""),
      RawTransaction("h6", "GENESIS", "0xb", "0", ""),
      RawTransaction("h7", "0xc", "0xc", "0", "") }

SeqsUpTo(S, n) == UNION { [1..k -> S] : k \in 0..n }

\* TransactionResponse.result: any list of ledger transactions.
Responses == SeqsUpTo(Ledger, MaxResponseLen)

\* What one HTTP exchange can do (lines 87-103).
NetworkOutcomes == {"send_error", "status_error", "body_error", "undecodable", "ok"}

(***************************************************************************)
(* State.                                                                  *)
(***************************************************************************)
VARIABLES
    pc,                         \* position of parse_blockchain
    max_transactions,           \* MAX_TRANSACTIONS_TO_PARSE of this run
    address_relevance_counter,  \* HashMap<String, u64>
    blockchain_graph,           \* Graph<String, SimplifiedTransaction>
    node_indices,               \* HashMap<String, NodeIndex>
    edges,                      \* HashMap<String, SimplifiedTransaction>
    trajectory,                 \* Vec<String>
    address_to_check,           \* argument of graph_data_collection_procedure
    response,                   \* transactions of the response still to be examined
    net,                        \* outcome of the latest HTTP exchange
    log,                        \* latest line printed by the fetch loop
    last_decision,              \* what the for loop did with the latest transaction
    graph,                      \* the graph handed to the analytics functions
    prices,                     \* Vec<EthPriceRecord>
    op,                         \* the function applied last, with its arguments
    out                         \* what it returned or wrote

crawl_vars == <<pc, max_transactions, address_relevance_counter, blockchain_graph,
                node_indices, edges, trajectory, address_to_check, response,
                net, log, last_decision>>
pure_vars == <<graph, prices, op, out>>
vars == <<crawl_vars, pure_vars>>

EmptyGraph == [nodes |-> <<>>, edges |-> <<>>]
EmptyMap == [x \in {} |-> 0]

(***************************************************************************)
(* petgraph operations used by the program.                                *)
(***************************************************************************)
node_count(g) == Len(g.nodes)
edge_count(g) == Len(g.edges)

\* Graph::add_node: appends the weight; the new NodeIndex is the old count.
add_node(g, weight) == [g EXCEPT !.nodes = Append(@, weight)]

\* Graph::add_edge: appends an edge between two existing nodes.
add_edge(g, a, b, weight) ==
    [g EXCEPT !.edges = Append(@, [source |-> a, target |-> b, weight |-> weight])]

\* Graph::clear_edges: nodes stay, edges go.
clear_edges(g) == [g EXCEPT !.edges = <<>>]

(***************************************************************************)
(* get_transactions_for_address: Err for a failed send, a non-success      *)
(* status, a failed body read and an undecodable body; Ok otherwise.       *)
(***************************************************************************)
get_transactions_for_address_decode_ok(outcome, result) ==
    CASE outcome = "send_error" -> [ok |-> FALSE, err |-> "transport"]
      [] outcome = "status_error" -> [ok |-> FALSE, err |-> "Response status errored."]
      [] outcome = "body_error" -> [ok |-> FALSE, err |-> "transport"]
      [] OTHER -> [ok |-> TRUE, result |-> result]

get_transactions_for_address_status_inverted(outcome, result) ==
    CASE outcome = "send_error" -> [ok |-> FALSE, err |-> "transport"]
      [] outcome = "status_error" -> [ok |-> FALSE, err |-> "Failed to decode JSON response"]
      [] outcome = "body_error" -> [ok |-> FALSE, err |-> "transport"]
      [] outcome = "undecodable" -> [ok |-> FALSE, err |-> "Response status errored."]
      [] OTHER -> [ok |-> FALSE, err |-> "Response status errored."]

get_transactions_for_address(outcome, result) ==
    CASE outcome = "send_error" -> [ok |-> FALSE, err |-> "transport"]
      [] outcome = "status_error" -> [ok |-> FALSE, err |-> "Response status errored."]
      [] outcome = "body_error" -> [ok |-> FALSE, err |-> "transport"]
      [] outcome = "undecodable" -> [ok |-> FALSE, err |-> "Failed to decode JSON response"]
      [] OTHER -> [ok |-> TRUE, result |-> result]

(***************************************************************************)
(* graph_data_collection_procedure, the for loop body (lines 131-161).     *)
(***************************************************************************)
Accepts_without_hash_check(transaction, known) ==
    /\ transaction.contractAddress = ""
    /\ transaction.isError = "0"
    /\ transaction.from # "GENESIS"

Accepts_ignoring_error(transaction, known) ==
    /\ transaction.contractAddress = ""
    /\ transaction.from # "GENESIS"
    /\ transaction.hash \notin DOMAIN known

\* The condition of lines 132-135.
Accepts(transaction, known) ==
    /\ transaction.contractAddress = ""
    /\ transaction.isError = "0"
    /\ transaction.from # "GENESIS"
    /\ transaction.hash \notin DOMAIN known

\* Which conjunct of lines 132-135 decided (reported in last_decision).
Decision(transaction, known) ==
    IF Accepts(transaction, known) THEN "accepted"
    ELSE IF transaction.contractAddress # "" THEN "contract_creation"
    ELSE IF transaction.isError # "0" THEN "is_error"
    ELSE IF transaction.from = "GENESIS" THEN "genesis"
    ELSE "known_hash"

Increment_overwrite(counter, address) ==
    IF address \in DOMAIN counter
    THEN [counter EXCEPT ![address] = 1]
    ELSE counter @@ (address :> 1)

Increment_existing_only(counter, address) ==
    IF address \in DOMAIN counter
    THEN [counter EXCEPT ![address] = @ + 1]
    ELSE counter

\* *counter.entry(address).or_insert(0) += 1
Increment(counter, address) ==
    IF address \in DOMAIN counter
    THEN [counter EXCEPT ![address] = @ + 1]
    ELSE counter @@ (address :> 1)

EnsureNode_always_adds(indices, g, address) ==
    [indices |-> (address :> node_count(g)) @@ indices,
     graph |-> add_node(g, address)]

\* node_indices.entry(address).or_insert_with(|| graph.add_node(address)):
\* the pair of the index map and the graph afterwards.
EnsureNode(indices, g, address) ==
    IF address \in DOMAIN indices
    THEN [indices |-> indices, graph |-> g]
    ELSE [indices |-> indices @@ (address :> node_count(g)),
          graph |-> add_node(g, address)]

SimplifiedTransaction(transaction) ==
    [hash |-> transaction.hash, value |-> transaction.value,
     timeStamp |-> transaction.timeStamp]

\* One iteration of the for loop over response.result.
InsertTransaction ==
    /\ pc = "insert"
    /\ response # <<>>
    /\ LET transaction == Head(response)
           withOrigin == EnsureNode(node_indices, blockchain_graph, transaction.from)
           withTarget == EnsureNode(withOrigin.indices, withOrigin.graph, transaction.to)
           origin == withTarget.indices[transaction.from]
           target == withTarget.indices[transaction.to]
       IN  /\ last_decision' = Decision(transaction, edges)
           /\ IF Accepts(transaction, edges)
              THEN /\ address_relevance_counter' =
                          Increment(Increment(address_relevance_counter, transaction.to),
                                    transaction.from)
                   /\ node_indices' = withTarget.indices
                   /\ edges' = edges @@
                          (transaction.hash :> SimplifiedTransaction(transaction))
                   /\ blockchain_graph' =
                          add_edge(withTarget.graph, origin, target,
                                   SimplifiedTransaction(transaction))
              ELSE UNCHANGED <<address_relevance_counter, node_indices, edges,
                               blockchain_graph>>
    /\ response' = Tail(response)
    /\ pc' = IF Tail(response) = <<>> THEN "loop" ELSE "insert"
    /\ UNCHANGED <<max_transactions, trajectory, address_to_check, net, log>>
    /\ UNCHANGED pure_vars

(***************************************************************************)
(* graph_data_collection_procedure, the fetch loop (lines 116-129).        *)
(***************************************************************************)
\* An attempt that returns Err: the error is printed and the loop repeats.
FetchErrWith(outcome) ==
    /\ pc = "fetch"
    /\ LET attempt == get_transactions_for_address(outcome, <<>>)
       IN  /\ ~attempt.ok
           /\ net' = outcome
           /\ log' = [line |-> "Incorrect response", detail |-> attempt.err]
    /\ UNCHANGED <<pc, max_transactions, address_relevance_counter, blockchain_graph,
                   node_indices, edges, trajectory, address_to_check, response,
                   last_decision>>
    /\ UNCHANGED pure_vars

FetchErr == \E outcome \in NetworkOutcomes : FetchErrWith(outcome)

\* An attempt that returns Ok(t): the length is printed and the loop breaks.
FetchOk ==
    /\ pc = "fetch"
    /\ \E outcome \in NetworkOutcomes, result \in Responses :
          LET attempt == get_transactions_for_address(outcome, result)
          IN  /\ attempt.ok
              /\ net' = outcome
              /\ log' = [line |-> "Correct response", detail |-> Len(attempt.result)]
              /\ response' = attempt.result
              /\ pc' = IF attempt.result = <<>> THEN "loop" ELSE "insert"
    /\ UNCHANGED <<max_transactions, address_relevance_counter, blockchain_graph,
                   node_indices, edges, trajectory, address_to_check, last_decision>>
    /\ UNCHANGED pure_vars

(***************************************************************************)
(* parse_blockchain, the top of the loop (lines 174-191).                  *)
(***************************************************************************)
BudgetReached_strict(count, maximum) == count > maximum

BudgetReached_never(count, maximum) == FALSE

\* Line 177.
BudgetReached(count, maximum) == count >= maximum

Unvisited_all(counter, visited) == DOMAIN counter

\* Keys of the counter that trajectory does not contain.
Unvisited(counter, visited) ==
    { a \in DOMAIN counter : \A i \in 1..Len(visited) : visited[i] # a }

PriorityAddresses_unsorted(counter, visited) ==
    { a \in DOMAIN counter : \A i \in 1..Len(visited) : visited[i] # a }

\* Lines 179-189: the first address, in descending order of score, that is
\* not in trajectory.  sort_by is stable and the HashMap yields its entries
\* in an unspecified order, so any unvisited address of highest score can
\* come first.
PriorityAddresses(counter, visited) ==
    { a \in Unvisited(counter, visited) :
        \A b \in Unvisited(counter, visited) : counter[b] <= counter[a] }

\* Line 177: the budget is reached and the graph is returned.
ReturnGraph ==
    /\ pc = "loop"
    /\ BudgetReached(edge_count(blockchain_graph), max_transactions)
    /\ pc' = "returned"
    /\ UNCHANGED <<max_transactions, address_relevance_counter, blockchain_graph,
                   node_indices, edges, trajectory, address_to_check, response,
                   net, log, last_decision>>
    /\ UNCHANGED pure_vars

\* Lines 185-191: an address is found, pushed on trajectory and expanded.
SelectAddress ==
    /\ pc = "loop"
    /\ ~BudgetReached(edge_count(blockchain_graph), max_transactions)
    /\ \E priority_address \in
              PriorityAddresses(address_relevance_counter, trajectory) :
          /\ trajectory' = Append(trajectory, priority_address)
          /\ address_to_check' = priority_address
    /\ pc' = "fetch"
    /\ UNCHANGED <<max_transactions, address_relevance_counter, blockchain_graph,
                   node_indices, edges, response, net, log, last_decision>>
    /\ UNCHANGED pure_vars

\* Line 189: find returns None and unwrap panics.
SelectPanics ==
    /\ pc = "loop"
    /\ ~BudgetReached(edge_count(blockchain_graph), max_transactions)
    /\ PriorityAddresses(address_relevance_counter, trajectory) = {}
    /\ pc' = "panicked"
    /\ UNCHANGED <<max_transactions, address_relevance_counter, blockchain_graph,
                   node_indices, edges, trajectory, address_to_check, response,
                   net, log, last_decision>>
    /\ UNCHANGED pure_vars

(***************************************************************************)
(* The crawl.                                                              *)
(***************************************************************************)
PureIdle ==
    /\ graph = EmptyGraph
    /\ prices = <<>>
    /\ op = <<"none">>
    /\ out = "none"

Init ==
    /\ pc = "loop"
    /\ max_transactions \in 0..MaxBudget
    /\ address_relevance_counter = (to_lowercase(TRAVERSAL_STARTING_ADDRESS) :> 1)
    /\ blockchain_graph = EmptyGraph
    /\ node_indices = EmptyMap
    /\ edges = EmptyMap
    /\ trajectory = <<>>
    /\ address_to_check = "none"
    /\ response = <<>>
    /\ net = "none"
    /\ log = [line |-> "none", detail |-> "none"]
    /\ last_decision = "none"
    /\ PureIdle

Next ==
    \/ ReturnGraph
    \/ SelectAddress
    \/ SelectPanics
    \/ FetchErr
    \/ FetchOk
    \/ InsertTransaction

Spec == Init /\ [][Next]_vars

\* The crawl when every step that can be taken is eventually taken: the
\* loop and the for loop run on, and a fetch that keeps being retried
\* eventually succeeds.
SpecFair ==
    /\ Init
    /\ [][Next]_vars
    /\ WF_vars(ReturnGraph)
    /\ WF_vars(SelectAddress)
    /\ WF_vars(SelectPanics)
    /\ WF_vars(FetchOk)
    /\ WF_vars(InsertTransaction)

(***************************************************************************)
(* Inputs of the analytics functions.                                      *)
(***************************************************************************)
WeiPerEth == 10             \* the divisor 1e18 of lines 315, 327, 406 and 422
SecondsPerPeriod == 3600    \* line 380
MantissaBits == 5           \* significant bits of an f64 (53 in the code)

EthPriceRecord(start, price) ==
    [unix_epoch_at_the_start_of_averaging_period |-> start,
     average_price_in_usd |-> price]

\* Edge weights: 1 ETH at the start of the hour 3600, 2.5 ETH (written with
\* a leading zero) inside the hour 7200.
Payloads ==
    { [hash |-> "h1", value |-> <<1, 0>>, timeStamp |-> <<3, 6, 0, 0>>],
      [hash |-> "h2", value |-> <<0, 2, 5>>, timeStamp |-> <<7, 3, 0, 0>>] }

\* Node weights of the input graphs, by node index.
Addresses == <<"0xa", "0xb", "0xc">>

\* Every graph over Addresses and Payloads whose nodes and edges number at
\* most MaxGraphSize together: parallel edges, self-loops, isolated nodes
\* and one-directional pairs.
Graphs ==
    UNION { { [nodes |-> SubSeq(Addresses, 1, n), edges |-> es] :
                es \in SeqsUpTo([source : 0..(n - 1), target : 0..(n - 1),
                                 weight : Payloads], MaxGraphSize - n) } :
            n \in 0..Len(Addresses) }

\* Price series of SpecPure: both hours known, only the first (the second
\* payload is priced by extrapolation), only the second (the first payload
\* has no price).
GraphSeries ==
    { <<EthPriceRecord(3600, 2), EthPriceRecord(7200, 4)>>,
      <<EthPriceRecord(3600, 2)>>,
      <<EthPriceRecord(7200, 4)>> }

\* (lower_usd_bound, higher_usd_bound) pairs, in USD.
UsdBounds == { <<0, 2>>, <<2, 10>>, <<3, 9>> }

\* Price series of SpecPrice: sequences of distinct records in any order.
\* The hour 10800 is missing from the records, and the bucket that starts
\* at 5400 overlaps two others.
PriceRecords ==
    { EthPriceRecord(3600, 2), EthPriceRecord(5400, 3), EthPriceRecord(7200, 4),
      EthPriceRecord(14400, 8) }

PriceSeries ==
    { series \in SeqsUpTo(PriceRecords, MaxSeriesLen) :
        \A i, j \in 1..Len(series) : i # j => series[i] # series[j] }

Timestamps == { 0, 3599, 3600, 7199, 7200, 10799, 10800, 14399, 14400, 17999, 18000 }

(***************************************************************************)
(* Results: a function either returns a value or panics.                   *)
(***************************************************************************)
Panic == [panic |-> TRUE]
Returned(v) == [panic |-> FALSE, value |-> v]

Min(S) == CHOOSE x \in S : \A y \in S : x <= y
Max(S) == CHOOSE x \in S : \A y \in S : y <= x
Abs(x) == IF x < 0 THEN -x ELSE x
Reverse(s) == [i \in 1..Len(s) |-> s[Len(s) + 1 - i]]

\* str::parse on a string of decimal digits: the number, or -1 for Err
\* (the empty string).
RECURSIVE ParseDigits(_)
ParseDigits(s) ==
    IF s = <<>> THEN 0
    ELSE 10 * ParseDigits(SubSeq(s, 1, Len(s) - 1)) + s[Len(s)]

ParseNumber(s) == IF s = <<>> THEN -1 ELSE ParseDigits(s)

\* The distance between neighbouring f64 values at a non-negative x.
RECURSIVE Ulp(_)
Ulp(x) == IF x < 2^MantissaBits THEN 1 ELSE 2 * Ulp(x \div 2)

\* The f64 nearest to a non-negative x, ties to the even mantissa: what
\* every f64 multiplication, addition and subtraction returns.
f64(x) ==
    LET unit == Ulp(x)
        mantissa == x \div unit
        rest == x % unit
    IN  IF 2 * rest < unit THEN mantissa * unit
        ELSE IF 2 * rest > unit THEN (mantissa + 1) * unit
        ELSE IF mantissa % 2 = 0 THEN mantissa * unit
        ELSE (mantissa + 1) * unit

(***************************************************************************)
(* get_price_at_timestamp (lines 377-396).                                 *)
(***************************************************************************)
InPeriod_end_inclusive(price, timestamp) ==
    LET period_start == price.unix_epoch_at_the_start_of_averaging_period
        period_end == period_start + SecondsPerPeriod
    IN  period_start <= timestamp /\ timestamp <= period_end

\* The closure of lines 378-382.
InPeriod(price, timestamp) ==
    LET period_start == price.unix_epoch_at_the_start_of_averaging_period
        period_end == period_start + SecondsPerPeriod
    IN  period_start <= timestamp /\ timestamp < period_end

\* Iterator::max_by of lines 387-388: the last of the records of greatest
\* period start.
LastRecord(series) ==
    series[Max({ i \in 1..Len(series) :
                   \A j \in 1..Len(series) :
                       series[j].unix_epoch_at_the_start_of_averaging_period
                         <= series[i].unix_epoch_at_the_start_of_averaging_period })]

get_price_at_timestamp(timestamp, series) ==
    LET found == { i \in 1..Len(series) : InPeriod(series[i], timestamp) }
    IN  IF found # {}
        THEN Returned(series[Min(found)].average_price_in_usd)
        ELSE IF series = <<>>
        THEN Panic
        ELSE IF timestamp > LastRecord(series).unix_epoch_at_the_start_of_averaging_period
        THEN Returned(LastRecord(series).average_price_in_usd)
        ELSE Panic

(***************************************************************************)
(* The USD value of one transaction (lines 404-406, 420-422, 313-315):     *)
(* (value / 1e18) * price, as its numerator over WeiPerEth.               *)
(***************************************************************************)
transaction_value_in_usd(transaction, series) ==
    LET timestamp == ParseNumber(transaction.timeStamp)
        volume_wei == ParseNumber(transaction.value)
    IN  IF timestamp < 0 \/ volume_wei < 0
        THEN Panic
        ELSE LET eth_price == get_price_at_timestamp(timestamp, series)
             IN  IF eth_price.panic THEN Panic
                 ELSE Returned(f64(volume_wei * eth_price.value))

\* The running sum of the USD values of a sequence of edges, added one by
\* one from the first to the last.
RECURSIVE SumUsd(_, _)
SumUsd(es, series) ==
    IF es = <<>> THEN Returned(0)
    ELSE LET rest == SumUsd(SubSeq(es, 1, Len(es) - 1), series)
             this == transaction_value_in_usd(es[Len(es)].weight, series)
         IN  IF rest.panic \/ this.panic THEN Panic
             ELSE Returned(f64(rest.value + this.value))

(***************************************************************************)
(* calculate_total_usd_volume (lines 415-428).  The mean is the pair of    *)
(* its numerator and its denominator.                                      *)
(***************************************************************************)
calculate_total_usd_volume(g, series) ==
    LET total_volume_usd == SumUsd(g.edges, series)
    IN  IF total_volume_usd.panic THEN Panic
        ELSE Returned([total_volume_usd |-> total_volume_usd.value,
                       mean_value_usd |-> <<total_volume_usd.value, edge_count(g)>>])

(***************************************************************************)
(* filter_by_transaction_price (lines 398-413).                            *)
(***************************************************************************)
InUsdRange_upper_exclusive(usd, lower_usd_bound, higher_usd_bound) ==
    lower_usd_bound * WeiPerEth <= usd /\ usd < higher_usd_bound * WeiPerEth

\* Line 407.
InUsdRange(usd, lower_usd_bound, higher_usd_bound) ==
    lower_usd_bound * WeiPerEth <= usd /\ usd <= higher_usd_bound * WeiPerEth

\* The for loop of lines 402-410 over the edges from index i on.
RECURSIVE PriceFilterLoop(_, _, _, _, _, _)
PriceFilterLoop(g, series, lower_usd_bound, higher_usd_bound, i, filtered_graph) ==
    IF i > edge_count(g) THEN Returned(filtered_graph)
    ELSE LET edge == g.edges[i]
             usd == transaction_value_in_usd(edge.weight, series)
         IN  IF usd.panic THEN Panic
             ELSE PriceFilterLoop(g, series, lower_usd_bound, higher_usd_bound, i + 1,
                      IF InUsdRange(usd.value, lower_usd_bound, higher_usd_bound)
                      THEN add_edge(filtered_graph, edge.source, edge.target, edge.weight)
                      ELSE filtered_graph)

filter_by_transaction_price(g, series, lower_usd_bound, higher_usd_bound) ==
    PriceFilterLoop(g, series, lower_usd_bound, higher_usd_bound, 1, clear_edges(g))

(***************************************************************************)
(* filter_twoway_edges (lines 267-280).                                    *)
(***************************************************************************)
find_edge_ignoring_target(g, a, b) ==
    \E i \in 1..edge_count(g) : g.edges[i].source = a

\* Graph::find_edge(a, b).is_some()
find_edge(g, a, b) ==
    \E i \in 1..edge_count(g) : g.edges[i].source = a /\ g.edges[i].target = b

\* Graph::edges_connecting(a, b): the indexes of the edges from a to b.
edges_connecting(g, a, b) ==
    { i \in 1..edge_count(g) : g.edges[i].source = a /\ g.edges[i].target = b }

RECURSIVE AddCopies(_, _, _)
AddCopies(filtered_graph, edge, n) ==
    IF n = 0 THEN filtered_graph
    ELSE AddCopies(add_edge(filtered_graph, edge.source, edge.target, edge.weight),
                   edge, n - 1)

TwowayStep_per_reverse_edge(g, filtered_graph, edge) ==
    AddCopies(filtered_graph, edge,
              Cardinality(edges_connecting(g, edge.target, edge.source)))

TwowayStep_same_direction(g, filtered_graph, edge) ==
    IF find_edge(g, edge.source, edge.target)
    THEN add_edge(filtered_graph, edge.source, edge.target, edge.weight)
    ELSE filtered_graph

\* The body of the for loop, lines 272-276.
TwowayStep(g, filtered_graph, edge) ==
    IF find_edge(g, edge.target, edge.source)
    THEN add_edge(filtered_graph, edge.source, edge.target, edge.weight)
    ELSE filtered_graph

RECURSIVE TwowayLoop(_, _, _)
TwowayLoop(g, i, filtered_graph) ==
    IF i > edge_count(g) THEN filtered_graph
    ELSE TwowayLoop(g, i + 1, TwowayStep(g, filtered_graph, g.edges[i]))

filter_twoway_edges(g) == TwowayLoop(g, 1, clear_edges(g))

(***************************************************************************)
(* calculate_two_way_flow (lines 282-356).                                 *)
(***************************************************************************)
\* Graph::edges(a) restricted to one target: the edges from a to b, the
\* most recently added first.
EdgesTo_any_target(g, a, b) ==
    Reverse(SelectSeq(g.edges, LAMBDA e : e.source = a))

EdgesTo(g, a, b) ==
    Reverse(SelectSeq(g.edges, LAMBDA e : e.source = a /\ e.target = b))

MarkVisited_one_direction(visited_pairs, node_a, node_b) ==
    visited_pairs \cup { <<node_a, node_b>> }

\* Lines 342-343.
MarkVisited(visited_pairs, node_a, node_b) ==
    visited_pairs \cup { <<node_a, node_b>>, <<node_b, node_a>> }

\* Lines 294-348 for one pair: its volume, its flow and its entry of the
\* detailed log.
PairOfEdge(g, series, node_a, node_b) ==
    LET edges_b_to_a == IF node_a # node_b THEN EdgesTo(g, node_b, node_a) ELSE <<>>
        sum_a_to_b_usd == SumUsd(EdgesTo(g, node_a, node_b), series)
        sum_b_to_a_usd == SumUsd(edges_b_to_a, series)
        \* pair_volume_usd runs on through both for loops
        pair_volume_usd == SumUsd(EdgesTo(g, node_a, node_b) \o edges_b_to_a, series)
    IN  IF sum_a_to_b_usd.panic \/ sum_b_to_a_usd.panic THEN Panic
        ELSE Returned(
               [node_a |-> node_a, node_b |-> node_b,
                edges_a_to_b |-> Cardinality(edges_connecting(g, node_a, node_b)),
                edges_b_to_a |-> Cardinality(edges_connecting(g, node_b, node_a)),
                pair_volume_usd |-> pair_volume_usd.value,
                pair_flow_usd |-> IF node_a # node_b
                                  THEN f64(Abs(sum_a_to_b_usd.value - sum_b_to_a_usd.value))
                                  ELSE 0])

\* The for loop of lines 288-350 over the edges from index i on.
RECURSIVE FlowLoop(_, _, _, _, _)
FlowLoop(g, series, i, visited_pairs, acc) ==
    IF i > edge_count(g) THEN Returned(acc)
    ELSE LET node_a == g.edges[i].source
             node_b == g.edges[i].target
         IN  IF <<node_a, node_b>> \in visited_pairs
             THEN FlowLoop(g, series, i + 1, visited_pairs, acc)
             ELSE LET pair == PairOfEdge(g, series, node_a, node_b)
                  IN  IF pair.panic THEN Panic
                      ELSE FlowLoop(g, series, i + 1,
                             MarkVisited(visited_pairs, node_a, node_b),
                             [total_volume_usd |->
                                  f64(acc.total_volume_usd + pair.value.pair_volume_usd),
                              total_flow_usd |->
                                  f64(acc.total_flow_usd + pair.value.pair_flow_usd),
                              detailed_log |-> Append(acc.detailed_log, pair.value)])

calculate_two_way_flow(g, series) ==
    LET result == FlowLoop(g, series, 1, {},
                      [total_volume_usd |-> 0, total_flow_usd |-> 0,
                       detailed_log |-> <<>>])
    IN  IF result.panic THEN Panic
        ELSE Returned([total_volume_usd |-> result.value.total_volume_usd,
                       mean_value_usd |-> <<result.value.total_volume_usd, edge_count(g)>>,
                       total_flow_usd |-> result.value.total_flow_usd,
                       detailed_log |-> result.value.detailed_log])

(***************************************************************************)
(* serialize_graph and deserialize_graph (lines 206-254).  The file holds  *)
(* the SerializableGraph that serde_json writes and reads back.            *)
(***************************************************************************)
SerializedEdge_swapped(edge) == <<edge.target, edge.source, edge.weight>>

\* Lines 215-216.
SerializedEdge(edge) == <<edge.source, edge.target, edge.weight>>

serialize_graph(g) ==
    [nodes |-> [i \in 1..node_count(g) |-> g.nodes[i]],
     edges |-> [i \in 1..edge_count(g) |-> SerializedEdge(g.edges[i])]]

\* Lines 245-247: the graph after the nodes from position i on are added,
\* with the NodeIndex add_node returned for each.
RECURSIVE DeserializeNodes(_, _, _, _)
DeserializeNodes(nodes, i, g, indices) ==
    IF i > Len(nodes) THEN [graph |-> g, node_indices |-> indices]
    ELSE DeserializeNodes(nodes, i + 1, add_node(g, nodes[i]),
                          Append(indices, node_count(g)))

\* Lines 249-251; node_indices[source] panics when out of range.
RECURSIVE DeserializeEdges(_, _, _, _)
DeserializeEdges(file_edges, i, g, indices) ==
    IF i > Len(file_edges) THEN Returned(g)
    ELSE LET source == file_edges[i][1]
             target == file_edges[i][2]
             weight == file_edges[i][3]
         IN  IF source >= Len(indices) \/ target >= Len(indices) THEN Panic
             ELSE DeserializeEdges(file_edges, i + 1,
                      add_edge(g, indices[source + 1], indices[target + 1], weight),
                      indices)

deserialize_graph(file) ==
    LET with_nodes == DeserializeNodes(file.nodes, 1, EmptyGraph, <<>>)
    IN  DeserializeEdges(file.edges, 1, with_nodes.graph, with_nodes.node_indices)

(***************************************************************************)
(* SpecPure: one analytics function applied to a graph and a price series, *)
(* and a written file read back.                                           *)
(***************************************************************************)
CrawlIdle ==
    /\ pc = "idle"
    /\ max_transactions = 0
    /\ address_relevance_counter = EmptyMap
    /\ blockchain_graph = EmptyGraph
    /\ node_indices = EmptyMap
    /\ edges = EmptyMap
    /\ trajectory = <<>>
    /\ address_to_check = "none"
    /\ response = <<>>
    /\ net = "none"
    /\ log = [line |-> "none", detail |-> "none"]
    /\ last_decision = "none"

InitPure ==
    /\ graph \in Graphs
    /\ prices \in GraphSeries
    /\ op = <<"none">>
    /\ out = "none"
    /\ CrawlIdle

ApplyFilterByPrice ==
    /\ op = <<"none">>
    /\ \E bounds \in UsdBounds :
          /\ op' = <<"filter_by_transaction_price", bounds[1], bounds[2]>>
          /\ out' = filter_by_transaction_price(graph, prices, bounds[1], bounds[2])
    /\ UNCHANGED <<graph, prices>>
    /\ UNCHANGED crawl_vars

ApplyFilterTwoway ==
    /\ op = <<"none">>
    /\ op' = <<"filter_twoway_edges">>
    /\ out' = Returned(filter_twoway_edges(graph))
    /\ UNCHANGED <<graph, prices>>
    /\ UNCHANGED crawl_vars

ApplyTwoWayFlow ==
    /\ op = <<"none">>
    /\ op' = <<"calculate_two_way_flow">>
    /\ out' = calculate_two_way_flow(graph, prices)
    /\ UNCHANGED <<graph, prices>>
    /\ UNCHANGED crawl_vars

\* calculate_total_usd_volume of the graph and of its two-way filtered graph
\* (lines 435 and 450-451, lines 482 and 503).
ApplyTotalVolume ==
    /\ op = <<"none">>
    /\ op' = <<"calculate_total_usd_volume">>
    /\ out' = [graph_volume |-> calculate_total_usd_volume(graph, prices),
               twoway_filtered_graph_volume |->
                   calculate_total_usd_volume(filter_twoway_edges(graph), prices)]
    /\ UNCHANGED <<graph, prices>>
    /\ UNCHANGED crawl_vars

\* filter_twoway_edges applied to the graph it returned.
ApplyFilterTwowayAgain ==
    /\ op = <<"none">>
    /\ op' = <<"filter_twoway_edges_again">>
    /\ out' = [twoway_filtered_graph |-> filter_twoway_edges(graph),
               filtered_again |-> filter_twoway_edges(filter_twoway_edges(graph))]
    /\ UNCHANGED <<graph, prices>>
    /\ UNCHANGED crawl_vars

\* calculate_two_way_flow of the two-way filtered graph (lines 450-451 and
\* 503-504).
ApplyTwowayFilteredFlow ==
    /\ op = <<"none">>
    /\ op' = <<"twoway_filtered_graph_flow">>
    /\ out' = [twoway_filtered_graph |-> filter_twoway_edges(graph),
               flow |-> calculate_two_way_flow(filter_twoway_edges(graph), prices)]
    /\ UNCHANGED <<graph, prices>>
    /\ UNCHANGED crawl_vars

\* calculate_total_usd_volume and calculate_two_way_flow of the same graph.
ApplyBothVolumes ==
    /\ op = <<"none">>
    /\ op' = <<"both_volumes">>
    /\ out' = [total_usd_volume |-> calculate_total_usd_volume(graph, prices),
               two_way_flow |-> calculate_two_way_flow(graph, prices)]
    /\ UNCHANGED <<graph, prices>>
    /\ UNCHANGED crawl_vars

\* serialize_graph: File::create succeeds and the file is written, or fails
\* and Err is returned.
ApplySerialize ==
    /\ op = <<"none">>
    /\ op' = <<"serialize_graph">>
    /\ \E created \in BOOLEAN :
          out' = IF created THEN [written |-> TRUE, file |-> serialize_graph(graph)]
                 ELSE [written |-> FALSE]
    /\ UNCHANGED <<graph, prices>>
    /\ UNCHANGED crawl_vars

\* deserialize_graph of the file written before; File::open of a missing
\* file panics.
ApplyDeserialize ==
    /\ op = <<"serialize_graph">>
    /\ op' = <<"deserialize_graph", out.written>>
    /\ out' = IF out.written THEN deserialize_graph(out.file) ELSE Panic
    /\ UNCHANGED <<graph, prices>>
    /\ UNCHANGED crawl_vars

NextPure ==
    \/ ApplyFilterByPrice
    \/ ApplyFilterTwoway
    \/ ApplyTwoWayFlow
    \/ ApplyTotalVolume
    \/ ApplyFilterTwowayAgain
    \/ ApplyTwowayFilteredFlow
    \/ ApplyBothVolumes
    \/ ApplySerialize
    \/ ApplyDeserialize

SpecPure == InitPure /\ [][NextPure]_vars

(***************************************************************************)
(* SpecPrice: get_price_at_timestamp applied to a timestamp.               *)
(***************************************************************************)
InitPrice ==
    /\ graph = EmptyGraph
    /\ prices \in PriceSeries
    /\ op = <<"none">>
    /\ out = "none"
    /\ CrawlIdle

ApplyPriceLookup ==
    /\ op = <<"none">>
    /\ \E timestamp \in Timestamps :
          /\ op' = <<"get_price_at_timestamp", timestamp>>
          /\ out' = get_price_at_timestamp(timestamp, prices)
    /\ UNCHANGED <<graph, prices>>
    /\ UNCHANGED crawl_vars

NextPrice == ApplyPriceLookup

SpecPrice == InitPrice /\ [][NextPrice]_vars

(***************************************************************************)
(* Claims about the crawl.                                                 *)
(***************************************************************************)
EdgeHashes(g) == [i \in 1..edge_count(g) |-> g.edges[i].weight.hash]

\* C1 (Dedup): in every reachable state of a crawl no transaction hash
\* labels more than one edge of the graph.
C1_Dedup ==
    \A i, j \in 1..edge_count(blockchain_graph) :
        i # j => EdgeHashes(blockchain_graph)[i] # EdgeHashes(blockchain_graph)[j]

\* A transaction whose hash is already an edge came back in the response of
\* a later address and was skipped.
C1_Witness ==
    /\ last_decision = "known_hash"
    /\ Len(trajectory) >= 2
    /\ edge_count(blockchain_graph) >= 1

\* C2 (Budget), as claimed: in every reachable state the edge count is at
\* most the configured maximum.
C2_Budget == edge_count(blockchain_graph) <= max_transactions

LatestResponseLen == IF log.line = "Correct response" THEN log.detail ELSE 0

\* C2 (Budget), amended: no fetch is outstanding unless the edge count is
\* below the maximum, and the edge count exceeds the maximum by less than
\* the length of the latest successful response.
C2_BudgetOvershoot ==
    /\ pc = "fetch" => edge_count(blockchain_graph) < max_transactions
    /\ \/ edge_count(blockchain_graph) <= max_transactions
       \/ edge_count(blockchain_graph) <= max_transactions - 1 + LatestResponseLen

\* The crawl has returned a graph with more edges than the maximum.
C2_Witness ==
    /\ pc = "returned"
    /\ edge_count(blockchain_graph) > max_transactions

\* C3 (Exhausted frontier): when no address of the counter is absent from
\* the trajectory the crawl does not end in an abort state.
C3_ExhaustedFrontier ==
    Unvisited(address_relevance_counter, trajectory) = {} => pc # "panicked"

FailedOutcomes == {"send_error", "body_error", "undecodable"}

\* C4 (Retry): a fetch attempt that fails in transport or returns an
\* undecodable payload leaves graph, counter, trajectory and both indexes
\* unchanged and leaves the crawl fetching the same address, and from every
\* state of the fetch loop each of these failures can happen once more.
C4_Retry ==
    /\ [][(pc = "fetch" /\ net' \in FailedOutcomes) =>
            /\ pc' = "fetch"
            /\ UNCHANGED <<address_relevance_counter, blockchain_graph, node_indices,
                           edges, trajectory, address_to_check, response,
                           max_transactions>>]_vars
    /\ [](pc = "fetch" => \A outcome \in FailedOutcomes : ENABLED FetchErrWith(outcome))

\* A retry in the middle of a crawl: the graph has edges and the latest
\* attempt for the address being fetched returned an undecodable payload.
C4_Witness ==
    /\ pc = "fetch"
    /\ net = "undecodable"
    /\ log.line = "Incorrect response"
    /\ edge_count(blockchain_graph) >= 1

(***************************************************************************)
(* Claims about the analytics functions.                                   *)
(***************************************************************************)
Applied(name) == op[1] = name

RECURSIVE SumOver(_, _)
\* The sum of f[x] over the finite set S.
SumOver(S, f) ==
    IF S = {} THEN 0
    ELSE LET x == CHOOSE y \in S : TRUE
         IN  f[x] + SumOver(S \ {x}, f)

PeriodStart(record) == record.unix_epoch_at_the_start_of_averaging_period

\* The records whose bucket [start, start + 3600) contains t.
BucketsOf(t) ==
    { i \in 1..Len(prices) :
        PeriodStart(prices[i]) <= t /\ t < PeriodStart(prices[i]) + SecondsPerPeriod }

LatestStart == Max({ PeriodStart(prices[i]) : i \in 1..Len(prices) })

\* C5 (Price lookup): get_price_at_timestamp(t) returns the price of a
\* bucket that contains t; with no such bucket and t greater than the
\* latest bucket start, the price of the latest bucket; otherwise (t before
\* the first bucket, t in a gap, an empty series) it fails.
C5_PriceLookup ==
    Applied("get_price_at_timestamp") =>
        LET t == op[2]
        IN  IF BucketsOf(t) # {}
            THEN \E i \in BucketsOf(t) :
                     out = Returned(prices[i].average_price_in_usd)
            ELSE IF prices # <<>> /\ t > LatestStart
            THEN \E i \in 1..Len(prices) :
                     /\ PeriodStart(prices[i]) = LatestStart
                     /\ out = Returned(prices[i].average_price_in_usd)
            ELSE out = Panic

\* A lookup in a gap between two buckets of an unsorted series has failed.
C5_Witness ==
    /\ Applied("get_price_at_timestamp")
    /\ Len(prices) = 2
    /\ PeriodStart(prices[1]) > PeriodStart(prices[2])
    /\ PeriodStart(prices[2]) + SecondsPerPeriod <= op[2]
    /\ op[2] < PeriodStart(prices[1])
    /\ out = Panic

\* The USD value of edge i of the input graph, over WeiPerEth.
EdgeUsd(i) == transaction_value_in_usd(graph.edges[i].weight, prices)

AllPriced == \A i \in 1..edge_count(graph) : ~EdgeUsd(i).panic

\* C6 (Price-range filter): filter_by_transaction_price returns the nodes
\* of the source graph and exactly the source edges whose USD value v
\* satisfies lower <= v <= upper, endpoints and payloads unchanged; it
\* returns nothing when an edge has no USD value.
C6_PriceFilter ==
    Applied("filter_by_transaction_price") =>
        IF AllPriced
        THEN /\ ~out.panic
             /\ out.value.nodes = graph.nodes
             /\ out.value.edges =
                    SelectSeq(graph.edges,
                        LAMBDA e :
                            LET usd == transaction_value_in_usd(e.weight, prices).value
                            IN  op[2] * WeiPerEth <= usd /\ usd <= op[3] * WeiPerEth)
        ELSE out = Panic

\* An edge worth exactly the lower bound and an edge worth exactly the upper
\* bound are kept, and a node without edges is kept.
C6_Witness ==
    /\ Applied("filter_by_transaction_price")
    /\ ~out.panic
    /\ \E i, j \in 1..edge_count(out.value) :
          /\ transaction_value_in_usd(out.value.edges[i].weight, prices).value = op[2] * WeiPerEth
          /\ transaction_value_in_usd(out.value.edges[j].weight, prices).value = op[3] * WeiPerEth
          /\ op[2] < op[3]
    /\ \E n \in 0..(node_count(out.value) - 1) :
          \A i \in 1..edge_count(graph) :
              graph.edges[i].source # n /\ graph.edges[i].target # n

HasReverseEdge(e) ==
    \E j \in 1..edge_count(graph) :
        graph.edges[j].source = e.target /\ graph.edges[j].target = e.source

\* C7 (Two-way filter): filter_twoway_edges returns the nodes of the source
\* graph and exactly the source edges A->B for which the source has an edge
\* B->A; every parallel edge of such a pair is kept and a self-loop is kept.
C7_TwowayFilter ==
    Applied("filter_twoway_edges") =>
        /\ ~out.panic
        /\ out.value.nodes = graph.nodes
        /\ out.value.edges = SelectSeq(graph.edges, HasReverseEdge)
        /\ \A i \in 1..edge_count(graph) :
               graph.edges[i].source = graph.edges[i].target =>
                   \E k \in 1..edge_count(out.value) : out.value.edges[k] = graph.edges[i]

\* Two parallel edges A->B are both kept on the strength of a single edge
\* B->A.
C7_Witness ==
    /\ Applied("filter_twoway_edges")
    /\ edge_count(graph) = 3
    /\ edge_count(out.value) = 3
    /\ \E i, j, k \in 1..3 :
          /\ i # j
          /\ graph.edges[i].source # graph.edges[i].target
          /\ graph.edges[j].source = graph.edges[i].source
          /\ graph.edges[j].target = graph.edges[i].target
          /\ graph.edges[k].source = graph.edges[i].target
          /\ graph.edges[k].target = graph.edges[i].source

\* The unordered address pairs that have at least one edge.
EdgePairs == { {graph.edges[i].source, graph.edges[i].target} : i \in 1..edge_count(graph) }

\* The f64 sum of a sequence of amounts, added from the first to the last.
RECURSIVE F64Sum(_)
F64Sum(amounts) ==
    IF amounts = <<>> THEN 0
    ELSE f64(F64Sum(SubSeq(amounts, 1, Len(amounts) - 1)) + amounts[Len(amounts)])

\* The USD values of the edges from a to b, the most recently added first.
DirectedValues(a, b) ==
    LET found == SelectSeq(graph.edges, LAMBDA e : e.source = a /\ e.target = b)
    IN  [k \in 1..Len(found) |->
            transaction_value_in_usd(found[Len(found) + 1 - k].weight, prices).value]

\* The sum of the USD values of all edges from a to b.
DirectedUsd(a, b) == F64Sum(DirectedValues(a, b))

\* C8 (Two-way pairwise flow): calculate_two_way_flow processes each
\* unordered pair {A,B} that has an edge exactly once; for A # B the pair
\* volume is the sum of the A->B edges plus the sum of the B->A edges and
\* the pair flow the absolute difference of the two sums; for A = B the two
\* directions are the same edges, counted once, and the pair flow is 0; the
\* totals returned are the sums of the pair volumes and of the pair flows.
\* Every sum is an f64 sum: the amounts are added one by one, the edges of
\* one direction from the most recently added to the oldest, the pairs in
\* the order in which they are processed.
C8_TwoWayFlow ==
    Applied("calculate_two_way_flow") =>
        IF AllPriced
        THEN /\ ~out.panic
             /\ LET entries == out.value.detailed_log
                    PairAt(k) == {entries[k].node_a, entries[k].node_b}
                IN  /\ \A k \in 1..Len(entries) : PairAt(k) \in EdgePairs
                    /\ \A pair \in EdgePairs :
                           Cardinality({ k \in 1..Len(entries) : PairAt(k) = pair }) = 1
                    /\ \A k \in 1..Len(entries) :
                           LET a == entries[k].node_a
                               b == entries[k].node_b
                           IN  IF a # b
                               THEN /\ entries[k].pair_volume_usd =
                                           F64Sum(DirectedValues(a, b)
                                                    \o DirectedValues(b, a))
                                    /\ entries[k].pair_flow_usd =
                                           f64(Abs(DirectedUsd(a, b) - DirectedUsd(b, a)))
                               ELSE /\ entries[k].pair_volume_usd = DirectedUsd(a, a)
                                    /\ entries[k].pair_flow_usd = 0
                    /\ out.value.total_volume_usd =
                           F64Sum([k \in 1..Len(entries) |-> entries[k].pair_volume_usd])
                    /\ out.value.total_flow_usd =
                           F64Sum([k \in 1..Len(entries) |-> entries[k].pair_flow_usd])
        ELSE out = Panic

\* A pair with edges in both directions met from both sides and a self-loop
\* pair have each been processed once.
C8_Witness ==
    /\ Applied("calculate_two_way_flow")
    /\ ~out.panic
    /\ edge_count(graph) = 3
    /\ graph.edges[1].source # graph.edges[1].target
    /\ graph.edges[2].source = graph.edges[1].target
    /\ graph.edges[2].target = graph.edges[1].source
    /\ graph.edges[3].source = graph.edges[3].target
    /\ Len(out.value.detailed_log) = 2
    /\ out.value.detailed_log[1].pair_flow_usd > 0
    /\ out.value.detailed_log[2].pair_volume_usd > 0

\* C9 (Flow symmetry): the total USD volume of filter_twoway_edges(graph) is
\* at most the total USD volume of the graph itself.
C9_TwowayVolume ==
    (Applied("calculate_total_usd_volume") /\ ~out.graph_volume.panic) =>
        /\ ~out.twoway_filtered_graph_volume.panic
        /\ out.twoway_filtered_graph_volume.value.total_volume_usd
             <= out.graph_volume.value.total_volume_usd

\* The filter kept an edge and dropped an edge that has no reverse edge:
\* the filtered volume is positive and below the volume of the graph.
C9_Witness ==
    /\ Applied("calculate_total_usd_volume")
    /\ ~out.graph_volume.panic
    /\ \E i, j \in 1..edge_count(graph) :
          HasReverseEdge(graph.edges[i]) /\ ~HasReverseEdge(graph.edges[j])
    /\ out.twoway_filtered_graph_volume.value.total_volume_usd > 0
    /\ out.twoway_filtered_graph_volume.value.total_volume_usd
         < out.graph_volume.value.total_volume_usd

\* C10 (Persistence round trip): deserialize_graph of the file that
\* serialize_graph wrote returns a graph with the same node labels at the
\* same positions, the same edge count and, edge by edge, the same source,
\* target and payload.
C10_RoundTrip ==
    (Applied("deserialize_graph") /\ op[2]) =>
        /\ ~out.panic
        /\ node_count(out.value) = node_count(graph)
        /\ \A n \in 1..node_count(graph) : out.value.nodes[n] = graph.nodes[n]
        /\ edge_count(out.value) = edge_count(graph)
        /\ \A i \in 1..edge_count(graph) :
               /\ out.value.edges[i].source = graph.edges[i].source
               /\ out.value.edges[i].target = graph.edges[i].target
               /\ out.value.edges[i].weight.hash = graph.edges[i].weight.hash
               /\ out.value.edges[i].weight.value = graph.edges[i].weight.value
               /\ out.value.edges[i].weight.timeStamp = graph.edges[i].weight.timeStamp

\* A graph with an isolated node, a self-loop and an edge between two
\* different nodes has been written and read back.
C10_Witness ==
    /\ Applied("deserialize_graph")
    /\ op[2]
    /\ ~out.panic
    /\ node_count(graph) = 3
    /\ edge_count(out.value) = 2
    /\ out.value.edges[1].source = out.value.edges[1].target
    /\ out.value.edges[2].source # out.value.edges[2].target
    /\ out.value.edges[2].source > out.value.edges[2].target

(***************************************************************************)
(* Claims about selection, expansion and the crawl state.                  *)
(***************************************************************************)
Score(counter, a) == IF a \in DOMAIN counter THEN counter[a] ELSE 0

InTrajectory(a) == \E i \in 1..Len(trajectory) : trajectory[i] = a

\* C11 (Greedy selection): the address chosen at a selection step is a key
\* of the counter, is not in the trajectory, and has a score at least that
\* of every other key of the counter that is not in the trajectory.
C11_GreedySelection ==
    [][(pc = "loop" /\ pc' = "fetch") =>
          /\ address_to_check' \in DOMAIN address_relevance_counter
          /\ ~InTrajectory(address_to_check')
          /\ \A b \in DOMAIN address_relevance_counter :
                 ~InTrajectory(b) =>
                     address_relevance_counter[b]
                       <= address_relevance_counter[address_to_check']]_vars

\* The address being fetched was chosen over an unvisited address of lower
\* score.
C11_Witness ==
    /\ pc = "fetch"
    /\ Len(trajectory) >= 2
    /\ \E b \in DOMAIN address_relevance_counter :
          /\ ~InTrajectory(b)
          /\ address_relevance_counter[b] < address_relevance_counter[address_to_check]

\* C12 (Deterministic tie-breaking): the crawl state and the responses
\* determine the address selected, also when several unvisited addresses
\* share the highest score: at a selection step one address can be chosen.
C12_DeterministicTieBreak ==
    (pc = "loop" /\ edge_count(blockchain_graph) < max_transactions) =>
        Cardinality(PriorityAddresses(address_relevance_counter, trajectory)) <= 1

HasNode(g, address) == \E n \in 1..node_count(g) : g.nodes[n] = address

\* What an accepted transaction does to graph and edge-hash index: one edge
\* more, from the node of `from` to the node of `to`, carrying hash, value
\* and timestamp; one node more for each endpoint that had none; everything
\* that was there stays.
AcceptedEffect(transaction) ==
    LET before == blockchain_graph
        after == blockchain_graph'
        added == after.edges[edge_count(after)]
        fresh == { a \in {transaction.from, transaction.to} : ~HasNode(before, a) }
    IN  /\ edge_count(after) = edge_count(before) + 1
        /\ SubSeq(after.edges, 1, edge_count(before)) = before.edges
        /\ after.nodes[added.source + 1] = transaction.from
        /\ after.nodes[added.target + 1] = transaction.to
        /\ added.weight = [hash |-> transaction.hash, value |-> transaction.value,
                           timeStamp |-> transaction.timeStamp]
        /\ node_count(after) = node_count(before) + Cardinality(fresh)
        /\ SubSeq(after.nodes, 1, node_count(before)) = before.nodes
        /\ \A a \in fresh : HasNode(after, a)
        /\ DOMAIN edges' = DOMAIN edges \cup {transaction.hash}
        /\ address_relevance_counter' # address_relevance_counter

RejectedEffect ==
    UNCHANGED <<blockchain_graph, address_relevance_counter, edges, node_indices>>

\* The rejection rule as claimed, and with the GENESIS sender added.
ClaimedReject(transaction) ==
    \/ transaction.contractAddress # ""
    \/ transaction.isError # "0"
    \/ transaction.hash \in DOMAIN edges

AmendedReject(transaction) ==
    ClaimedReject(transaction) \/ transaction.from = "GENESIS"

\* C13 (Accept/reject rule), as claimed: a returned transaction is rejected
\* without any change exactly when it is a contract creation, its error
\* flag is set or its hash is a known edge; every other one adds one edge.
C13_AcceptReject ==
    [][pc = "insert" =>
          IF ClaimedReject(Head(response))
          THEN RejectedEffect
          ELSE AcceptedEffect(Head(response))]_vars

\* C13 (Accept/reject rule), amended: a transaction whose sender is GENESIS
\* is rejected as well.
C13_AcceptRejectGenesis ==
    [][pc = "insert" =>
          IF AmendedReject(Head(response))
          THEN RejectedEffect
          ELSE AcceptedEffect(Head(response))]_vars

\* A GENESIS transfer with a new hash, no error and no contract address was
\* skipped by a crawl that holds edges.
C13_Witness ==
    /\ last_decision = "genesis"
    /\ "h6" \notin DOMAIN edges
    /\ edge_count(blockchain_graph) >= 1

\* C14 (Relevance Counter monotonicity): an accepted transaction adds 1 to
\* the score of `from` and 1 to the score of `to` (2 when they are the same
\* address) and changes no other score; every other step leaves the counter
\* as it is; no score decreases and no key is removed.
C14_CounterMonotone ==
    [][/\ \A a \in DOMAIN address_relevance_counter :
              /\ a \in DOMAIN address_relevance_counter'
              /\ address_relevance_counter'[a] >= address_relevance_counter[a]
       /\ IF pc = "insert" /\ ~AmendedReject(Head(response))
          THEN LET transaction == Head(response)
               IN  /\ DOMAIN address_relevance_counter' =
                          DOMAIN address_relevance_counter
                            \cup {transaction.from, transaction.to}
                   /\ \A a \in DOMAIN address_relevance_counter' :
                          address_relevance_counter'[a] =
                              Score(address_relevance_counter, a)
                                + (IF a = transaction.from THEN 1 ELSE 0)
                                + (IF a = transaction.to THEN 1 ELSE 0)
          ELSE address_relevance_counter' = address_relevance_counter]_vars

\* The transfer of 0xc to itself was accepted when 0xc already had a score.
C14_Witness ==
    /\ "h7" \in DOMAIN edges
    /\ "0xc" \in DOMAIN address_relevance_counter
    /\ address_relevance_counter["0xc"] = 3
    /\ last_decision = "accepted"

\* C15 (No re-querying): the trajectory holds no address twice and only
\* grows, by the chosen address, at the selection step that precedes the
\* fetch; while an address is fetched and its response inserted it is the
\* last entry of the trajectory.
C15_NoRequery ==
    /\ [](/\ \A i, j \in 1..Len(trajectory) : i # j => trajectory[i] # trajectory[j]
          /\ pc \in {"fetch", "insert"} =>
                 /\ trajectory # <<>>
                 /\ trajectory[Len(trajectory)] = address_to_check)
    /\ [][\/ trajectory' = trajectory
          \/ /\ pc = "loop"
             /\ pc' = "fetch"
             /\ trajectory' = Append(trajectory, address_to_check')]_vars

\* The fetch of the second address of a crawl is being retried.
C15_Witness ==
    /\ pc = "fetch"
    /\ net \in FailedOutcomes
    /\ Len(trajectory) = 2
    /\ Cardinality(DOMAIN address_relevance_counter) >= 3

\* C16 (Budget check ordering): a fetch starts only from the top of the
\* loop and only with an edge count below the maximum, which still holds at
\* every retry; with maximum 0 nothing is fetched and the graph stays empty;
\* while a response is inserted the next transaction is examined whatever
\* the edge count.
C16_CheckOrdering ==
    /\ [][(pc # "fetch" /\ pc' = "fetch") =>
             /\ pc = "loop"
             /\ edge_count(blockchain_graph) < max_transactions]_vars
    /\ [](pc = "fetch" => edge_count(blockchain_graph) < max_transactions)
    /\ [](max_transactions = 0 =>
             /\ pc \in {"loop", "returned"}
             /\ blockchain_graph = EmptyGraph
             /\ trajectory = <<>>
             /\ net = "none")
    /\ [][(pc = "insert" /\ Len(response) > 1) => pc' = "insert"]_vars

\* The budget is reached and a further transaction of the same response is
\* about to be examined.
C16_Witness ==
    /\ pc = "insert"
    /\ max_transactions > 0
    /\ edge_count(blockchain_graph) >= max_transactions
    /\ ~AmendedReject(Head(response))

\* No two different strings of S are equal after case folding.
FoldedDistinct(S) ==
    \A a, b \in S : to_lowercase(a) = to_lowercase(b) => a = b

NodeLabels(g) == { g.nodes[n] : n \in 1..node_count(g) }
TrajectoryEntries == { trajectory[i] : i \in 1..Len(trajectory) }

\* C17 (Case-folded addresses): two spellings of one address share one
\* Relevance Counter entry, one Trajectory entry and one Graph node, so none
\* of the three holds two strings that are equal after case folding.
C17_CaseFolded ==
    /\ FoldedDistinct(NodeLabels(blockchain_graph))
    /\ FoldedDistinct(DOMAIN address_relevance_counter)
    /\ FoldedDistinct(TrajectoryEntries)

\* C18 (Crawl liveness): when every fetch eventually succeeds the crawl
\* eventually stops, by returning the graph or by a fatal error; and the
\* retry loop is left only by an attempt that succeeded, so a fetch that
\* fails forever keeps the crawl in it forever.
C18_Liveness ==
    /\ <>(pc \in {"returned", "panicked"})
    /\ [][(pc = "fetch" /\ pc' # "fetch") => net' = "ok"]_vars
    /\ [][(pc = "fetch" /\ net' \in FailedOutcomes) =>
              /\ pc' = "fetch"
              /\ address_to_check' = address_to_check]_vars

\* A crawl returned its graph after expanding two addresses.
C18_Witness ==
    /\ pc = "returned"
    /\ Len(trajectory) >= 2
    /\ edge_count(blockchain_graph) >= max_transactions
    /\ max_transactions > 0

\* C19 (Relevance mass invariant): before the first selection the Graph and
\* the Trajectory are empty and the Relevance Counter holds the seed alone
\* with score 1; the scores always add up to 1 plus twice the edge count.
C19_RelevanceMass ==
    /\ SumOver(DOMAIN address_relevance_counter, address_relevance_counter)
          = 1 + 2 * edge_count(blockchain_graph)
    /\ trajectory = <<>> =>
          /\ blockchain_graph = EmptyGraph
          /\ address_relevance_counter =
                 (to_lowercase(TRAVERSAL_STARTING_ADDRESS) :> 1)

\* Two expansion steps are complete and the graph holds two edges or more.
C19_Witness ==
    /\ pc = "loop"
    /\ Len(trajectory) >= 2
    /\ edge_count(blockchain_graph) >= 2

EdgeEndpoints(g) ==
    { g.nodes[g.edges[e].source + 1] : e \in 1..edge_count(g) }
      \cup { g.nodes[g.edges[e].target + 1] : e \in 1..edge_count(g) }

\* C20 (Graph Store consistency): node labels are pairwise distinct; the
\* address-to-node index maps each label to the node carrying it; the nodes
\* are the endpoints of the edges; every node's address has a score of 1 or
\* more; the edge-hash index has one entry per edge, holding its weight.
C20_StoreConsistency ==
    /\ \A m, n \in 1..node_count(blockchain_graph) :
           blockchain_graph.nodes[m] = blockchain_graph.nodes[n] => m = n
    /\ DOMAIN node_indices = NodeLabels(blockchain_graph)
    /\ \A a \in DOMAIN node_indices :
           /\ node_indices[a] \in 0..(node_count(blockchain_graph) - 1)
           /\ blockchain_graph.nodes[node_indices[a] + 1] = a
    /\ \A e \in 1..edge_count(blockchain_graph) :
           /\ blockchain_graph.edges[e].source \in 0..(node_count(blockchain_graph) - 1)
           /\ blockchain_graph.edges[e].target \in 0..(node_count(blockchain_graph) - 1)
    /\ NodeLabels(blockchain_graph) = EdgeEndpoints(blockchain_graph)
    /\ \A a \in NodeLabels(blockchain_graph) :
           /\ a \in DOMAIN address_relevance_counter
           /\ address_relevance_counter[a] >= 1
    /\ DOMAIN edges = { EdgeHashes(blockchain_graph)[e] :
                            e \in 1..edge_count(blockchain_graph) }
    /\ Cardinality(DOMAIN edges) = edge_count(blockchain_graph)
    /\ \A e \in 1..edge_count(blockchain_graph) :
           edges[blockchain_graph.edges[e].weight.hash] = blockchain_graph.edges[e].weight

\* A transaction between two known nodes was accepted into a graph of three
\* nodes that does not hold the seed.
C20_Witness ==
    /\ last_decision = "accepted"
    /\ node_count(blockchain_graph) >= 3
    /\ edge_count(blockchain_graph) >= node_count(blockchain_graph)
    /\ to_lowercase(TRAVERSAL_STARTING_ADDRESS) \notin NodeLabels(blockchain_graph)

HasReverseEdgeIn(g, e) ==
    \E j \in 1..edge_count(g) :
        g.edges[j].source = e.target /\ g.edges[j].target = e.source

\* C21 (Two-way filter idempotence): every edge A->B of the graph that
\* filter_twoway_edges returns has an edge B->A in that same graph; the
\* filter applied to its own output returns the same nodes and the same
\* edges; and every pair that calculate_two_way_flow processes on the
\* filtered graph has edges in both directions.
C21_TwowayIdempotent ==
    /\ Applied("filter_twoway_edges_again") =>
          /\ \A i \in 1..edge_count(out.twoway_filtered_graph) :
                 HasReverseEdgeIn(out.twoway_filtered_graph,
                                  out.twoway_filtered_graph.edges[i])
          /\ out.filtered_again.nodes = out.twoway_filtered_graph.nodes
          /\ out.filtered_again.edges = out.twoway_filtered_graph.edges
    /\ (Applied("twoway_filtered_graph_flow") /\ ~out.flow.panic) =>
          \A k \in 1..Len(out.flow.value.detailed_log) :
              /\ out.flow.value.detailed_log[k].edges_a_to_b >= 1
              /\ out.flow.value.detailed_log[k].edges_b_to_a >= 1

\* The first pass dropped an edge that has no reverse edge and kept two
\* edges, which the second pass kept again.
C21_Witness ==
    /\ Applied("filter_twoway_edges_again")
    /\ edge_count(out.twoway_filtered_graph) < edge_count(graph)
    /\ edge_count(out.filtered_again) >= 2

\* The sum of the USD values of all edges of the input graph, in exact
\* arithmetic.
ExactVolume ==
    SumOver(1..edge_count(graph), [i \in 1..edge_count(graph) |-> EdgeUsd(i).value])

\* An f64 sum of the USD values of the edges of the input graph, each added
\* once in some order: every addition but the first can round, by at most
\* the fraction 2^(-MantissaBits) of its result.
WithinRounding(total) ==
    Abs(total - ExactVolume) * (2^MantissaBits - (edge_count(graph) - 1))
        <= (edge_count(graph) - 1) * ExactVolume

BothReturned ==
    /\ Applied("both_volumes")
    /\ ~out.total_usd_volume.panic
    /\ ~out.two_way_flow.panic

\* C22 (Volume agreement), as claimed: the total volume that
\* calculate_two_way_flow returns equals the one that
\* calculate_total_usd_volume returns for the same graph and prices, and
\* the total flow does not exceed it.
C22_VolumeAgreement ==
    Applied("both_volumes") =>
        /\ out.two_way_flow.panic <=> out.total_usd_volume.panic
        /\ BothReturned =>
              /\ out.two_way_flow.value.total_volume_usd
                   = out.total_usd_volume.value.total_volume_usd
              /\ out.two_way_flow.value.total_flow_usd
                   <= out.total_usd_volume.value.total_volume_usd

\* C22 (Volume agreement), amended: the two functions return or fail
\* together; each total is an f64 sum that holds every edge's USD value
\* once, so both lie within the rounding of the exact sum, and they are
\* equal for graphs of at most two edges; the total flow does not exceed
\* the total volume that calculate_two_way_flow returns with it.
C22_VolumeAgreementRounded ==
    Applied("both_volumes") =>
        /\ out.two_way_flow.panic <=> out.total_usd_volume.panic
        /\ BothReturned =>
              /\ WithinRounding(out.two_way_flow.value.total_volume_usd)
              /\ WithinRounding(out.total_usd_volume.value.total_volume_usd)
              /\ edge_count(graph) <= 2 =>
                     out.two_way_flow.value.total_volume_usd
                       = out.total_usd_volume.value.total_volume_usd
              /\ out.two_way_flow.value.total_flow_usd
                   <= out.two_way_flow.value.total_volume_usd

\* Three edges or more were added in two different orders and the two
\* totals differ.
C22_Witness ==
    /\ BothReturned
    /\ edge_count(graph) >= 3
    /\ out.two_way_flow.value.total_volume_usd
         # out.total_usd_volume.value.total_volume_usd
    /\ out.two_way_flow.value.total_flow_usd > 0

====
